---- MODULE Spec2Model ----
(***************************************************************************)
(* Request-dispatch engine of the Gemini proxy: the KeyManager credential  *)
(* pool (src/service/key/keyManager.ts) and the retry loop shared by       *)
(* GeminiChatService.generateContent, streamGenerateContent, countTokens   *)
(* and embedContent (src/service/chat/geminiChatService.ts).               *)
(*                                                                         *)
(* Each operation is a process whose position (pc) is the await it is      *)
(* suspended at; everything between two awaits runs as one step, as it     *)
(* does on the Node.js event loop.                                         *)
(***************************************************************************)
EXTENDS Integers, Sequences, FiniteSets, TLC

\* ---- bounds of the model ----
MaxKeys == 3        \* largest pool
MaxCursor == 4      \* the retry loop stops drawing keys once the cursor is here
MaxCalls == 8       \* getNextKey calls followed when the pool is observed alone
MaxFrames == 2      \* frames one streaming operation may yield
MaxWindow == 6      \* how many recent getNextKey results are remembered
MaxKeyLen == 9      \* longest credential text
MaxSegments == 3    \* pieces an upstream response stream is put together from
MaxChunk == 17      \* most bytes one chunk of the response stream carries
MaxParamLen == 3    \* pieces the wildcard of /models/* is put together from
MaxTurns == 2       \* turns (contents, messages) in a request body
MaxCandidates == 2  \* candidates in an upstream response

\* ---- program constants ----
MAX_RETRIES == 3
OK == 200
BAD_REQUEST == 400
UNAUTHORIZED == 401
INTERNAL_SERVER_ERROR == 500
BAD_GATEWAY == 502
SERVICE_UNAVAILABLE == 503
NONE == 0           \* undefined / null: no key, no response status

\* the operation followed through its retry loop; the operations running
\* beside it touch the pool through OtherGetNextKey and OtherMarkKeyAsFailed
Ops == {"op1"}
\* generateContent stands for the methods that await one response
\* (generateContent, countTokens, embedContent once its content is derived):
\* their retry loops are the same
Kinds == {"generateContent", "streamGenerateContent"}
Keys == 1..MaxKeys

\* settings.API_KEYS: distinct keys, or the same key listed twice
PoolChoices == {[i \in 1..n |-> i] : n \in 0..MaxKeys} \cup {<<1, 1>>}

\* what one upstream call can answer: 200, an HTTP error, or NONE for a
\* timeout / network error (the axios error carries no response)
UpstreamStatuses == {OK, BAD_REQUEST, UNAUTHORIZED, INTERNAL_SERVER_ERROR, NONE}

VARIABLES
  apiKeys,             \* KeyManager.apiKeys
  currentKeyIndex,     \* KeyManager.currentKeyIndex
  failedKeys,          \* KeyManager.failedKeys
  REQUEST_LOG_ENABLED, \* settings.REQUEST_LOG_ENABLED
  ERROR_LOG_ENABLED,   \* settings.ERROR_LOG_ENABLED
  pc,                  \* where each operation is suspended
  kind,                \* which method the operation runs
  attempt,             \* loop variable of the retry loop
  currentKey,          \* local currentKey
  lastError,           \* local lastError
  result,              \* what the operation returned or threw
  calls,               \* per operation: upstream calls issued
  noKeys,              \* per operation: acquisitions that found no key
  lastFailure,         \* per operation: message of the latest failed attempt
  sinkRejected,        \* per operation: the log sink rejected one of its writes
  errorLogs,           \* per operation: error-log records the sink stored
  requestLogs,         \* per operation: request-log records the sink stored
  frames,              \* per operation: frames yielded to the consumer
  frameCall,           \* per operation: the upstream call that gave its latest frame
  served,              \* keys getNextKey returned since failedKeys last changed
  logged,              \* what the log sink and the logger were given about keys
  upstream,            \* response stream: the bytes still to arrive
  arrived,             \* response stream: the bytes that have arrived
  buffer,              \* local buffer of streamGenerateContent
  yielded,             \* the frames streamGenerateContent has yielded
  relay,               \* "idle", "reading", "ended" or "failed"
  route,               \* the handler the HTTP request was given to
  hpc,                 \* where that handler is suspended
  params,              \* request.params['*']
  body,                \* request.body
  derived,             \* what the handler derived from params or body
  reply,               \* status of the response reply.send made, 0 if none
  wire,                \* the calls made on reply.raw, in order
  clientGone           \* the client has closed the connection

vars == <<apiKeys, currentKeyIndex, failedKeys, REQUEST_LOG_ENABLED,
          ERROR_LOG_ENABLED, pc, kind, attempt, currentKey, lastError, result,
          calls, noKeys, lastFailure, sinkRejected, errorLogs, requestLogs,
          frames, frameCall, served, logged, upstream, arrived, buffer, yielded,
          relay, route, hpc, params, body, derived, reply, wire, clientGone>>

poolVars == <<apiKeys, currentKeyIndex, failedKeys, served>>
obsVars == <<calls, noKeys, lastFailure, sinkRejected, errorLogs, requestLogs,
            frames, frameCall>>
\* the state of the components a request to the chat service does not touch
relayVars == <<upstream, arrived, buffer, yielded, relay>>
routeVars == <<route, hpc, params, body, derived, reply, wire, clientGone>>
auxVars == <<logged, relayVars, routeVars>>
settingVars == <<REQUEST_LOG_ENABLED, ERROR_LOG_ENABLED>>

\* ---- KeyManager ----

availableKeys_unfiltered(keys, failed) == keys

\* apiKeys.filter(key => !failedKeys.has(key))
availableKeys(keys, failed) == SelectSeq(keys, LAMBDA k : k \notin failed)

getNextKey_first(keys, failed, idx) ==
  LET avail == availableKeys(keys, failed)
  IN  IF Len(avail) = 0 THEN NONE ELSE avail[1]

\* the value getNextKey returns
getNextKey(keys, failed, idx) ==
  LET avail == availableKeys(keys, failed)
  IN  IF Len(avail) = 0 THEN NONE ELSE avail[(idx % Len(avail)) + 1]

nextKeyIndex_lost(keys, failed, idx) == idx

\* currentKeyIndex after getNextKey: incremented unless it returned early
nextKeyIndex(keys, failed, idx) ==
  IF Len(availableKeys(keys, failed)) = 0 THEN idx ELSE idx + 1

markKeyAsFailed_noop(failed, key) == failed

markKeyAsFailed_replace(failed, key) == {key}

markKeyAsFailed(failed, key) == failed \cup {key}

resetFailedKeys_keepsFirst == {1}

\* failedKeys.clear()
resetFailedKeys == {}

\* settings.VERTEX_API_KEYS, which the constructor copies into vertexKeys:
\* none are configured
VERTEX_API_KEYS == <<>>

\* getKeyStatus: an arithmetic snapshot of the two key lists and the failed set
getKeyStatus(keys, vertexKeys, failed) ==
  LET total == Len(keys) + Len(vertexKeys)
  IN  [total |-> total, available |-> total - Cardinality(failed),
       failed |-> Cardinality(failed)]

\* the window of results: emptied when the failed set changes, sliding
pushServed(s, key) ==
  IF Len(s) < MaxWindow THEN Append(s, key) ELSE Append(Tail(s), key)

\* ---- errors ----

\* an error as the loop reads it: message, err.response?.status (NONE when
\* the error carries no response) and the statusCode of an AppError
NoError == [message |-> "none", status |-> NONE, statusCode |-> NONE]
\* new AppError('No available API keys ...', SERVICE_UNAVAILABLE): it has a
\* statusCode but no response, so err.response?.status is undefined
NoKeyError ==
  [message |-> "No available API keys", status |-> NONE,
   statusCode |-> SERVICE_UNAVAILABLE]
\* what createRequestLog / createErrorLog rethrow
SinkError ==
  [message |-> "log sink rejected the write", status |-> NONE, statusCode |-> NONE]
\* the response stream fails while it is read
StreamError == [message |-> "stream aborted", status |-> NONE, statusCode |-> NONE]

\* the AxiosError of a failed upstream call; err.response?.status is its status
AxiosError(status) ==
  [message |-> CASE status = BAD_REQUEST -> "Request failed with status code 400"
                 [] status = UNAUTHORIZED -> "Request failed with status code 401"
                 [] status = INTERNAL_SERVER_ERROR -> "Request failed with status code 500"
                 [] OTHER -> "timeout exceeded",
   status |-> status, statusCode |-> NONE]

NoResult == [kind |-> "none", statusCode |-> NONE, message |-> "none"]
Success == [kind |-> "ok", statusCode |-> OK, message |-> "none"]
\* the sink's exception leaves the method through its catch block
SinkThrown == [kind |-> "SinkError", statusCode |-> NONE, message |-> SinkError.message]

DefaultMessage == "Failed after all retries"

\* throw new ExternalServiceError(lastError?.message ?? '...')
ExternalServiceError(err) ==
  [kind |-> "ExternalServiceError", statusCode |-> BAD_GATEWAY,
   message |-> IF err = NoError THEN DefaultMessage ELSE err.message]

writesErrorLog_never(key, enabled) == FALSE

\* if (currentKey && this.keyManager) { ... if (settings.ERROR_LOG_ENABLED)
writesErrorLog(key, enabled) == key # NONE /\ enabled

recordError_first(old, err) == IF old = NoError THEN err ELSE old

\* lastError = err
recordError(old, err) == err

shouldBreak_only400(status) == status = BAD_REQUEST

\* "Don't retry on certain errors"
shouldBreak(status) == status = BAD_REQUEST \/ status = UNAUTHORIZED

loopContinues_twice(a) == a < 2 * MAX_RETRIES

loopContinues_extra(a) == a <= MAX_RETRIES

\* the loop condition attempt < settings.MAX_RETRIES
loopContinues(a) == a < MAX_RETRIES

\* ---- the retry loop ----

\* no request has entered the retry loop
NoRequest ==
  /\ pc = [p \in Ops |-> "idle"]
  /\ kind = [p \in Ops |-> "generateContent"]
  /\ attempt = [p \in Ops |-> 0]
  /\ currentKey = [p \in Ops |-> NONE]
  /\ lastError = [p \in Ops |-> NoError]
  /\ result = [p \in Ops |-> NoResult]
  /\ calls = [p \in Ops |-> 0]
  /\ noKeys = [p \in Ops |-> 0]
  /\ lastFailure = [p \in Ops |-> "none"]
  /\ sinkRejected = [p \in Ops |-> FALSE]
  /\ errorLogs = [p \in Ops |-> 0]
  /\ requestLogs = [p \in Ops |-> 0]
  /\ frames = [p \in Ops |-> 0]
  /\ frameCall = [p \in Ops |-> 0]

\* no response stream is being read
NoRelay ==
  /\ upstream = <<>>
  /\ arrived = <<>>
  /\ buffer = <<>>
  /\ yielded = <<>>
  /\ relay = "idle"

\* a request body as far as the handlers read it; "" stands for a field
\* that is absent
NoBody == [content |-> "", contents |-> <<>>, messages |-> <<>>]

\* no HTTP request has reached a route handler
NoRoute ==
  /\ route = "none"
  /\ hpc = "idle"
  /\ params = <<>>
  /\ body = NoBody
  /\ derived = <<>>
  /\ reply = 0
  /\ wire = <<>>
  /\ clientGone = FALSE

Init ==
  /\ apiKeys \in PoolChoices
  /\ currentKeyIndex = 0
  /\ failedKeys = {}
  /\ served = <<>>
  /\ REQUEST_LOG_ENABLED \in BOOLEAN
  /\ ERROR_LOG_ENABLED \in BOOLEAN
  /\ NoRequest
  /\ logged = {}
  /\ NoRelay
  /\ NoRoute

\* the end of one iteration's catch block: break, or attempt++ and the loop
\* condition; leaving the loop throws the ExternalServiceError
CatchTail(p, err) ==
  LET brk == shouldBreak(err.status)
      a == IF brk THEN attempt[p] ELSE attempt[p] + 1
      exits == brk \/ ~loopContinues(a)
  IN  /\ attempt' = [attempt EXCEPT ![p] = a]
      /\ pc' = [pc EXCEPT ![p] = IF exits THEN "done" ELSE "acquire"]
      /\ result' = [result EXCEPT ![p] =
                      IF exits THEN ExternalServiceError(err) ELSE @]

\* the catch block up to its first await: lastError, markKeyAsFailed, and
\* either the await of createErrorLog or the rest of the block
Catch(p, key, err) ==
  LET e == recordError(lastError[p], err)
      failed == IF key # NONE THEN markKeyAsFailed(failedKeys, key) ELSE failedKeys
  IN  /\ lastError' = [lastError EXCEPT ![p] = e]
      /\ lastFailure' = [lastFailure EXCEPT ![p] = err.message]
      /\ failedKeys' = failed
      /\ UNCHANGED served
      /\ IF writesErrorLog(key, ERROR_LOG_ENABLED)
           THEN /\ pc' = [pc EXCEPT ![p] = "logerr"]
                /\ UNCHANGED <<attempt, result>>
           ELSE CatchTail(p, e)

\* a request arrives: the method starts and reaches the loop head
Start(p, k) ==
  /\ pc[p] \in {"idle", "done"}
  /\ kind' = [kind EXCEPT ![p] = k]
  /\ attempt' = [attempt EXCEPT ![p] = 0]
  /\ currentKey' = [currentKey EXCEPT ![p] = NONE]
  /\ lastError' = [lastError EXCEPT ![p] = NoError]
  /\ calls' = [calls EXCEPT ![p] = 0]
  /\ noKeys' = [noKeys EXCEPT ![p] = 0]
  /\ lastFailure' = [lastFailure EXCEPT ![p] = "none"]
  /\ sinkRejected' = [sinkRejected EXCEPT ![p] = FALSE]
  /\ errorLogs' = [errorLogs EXCEPT ![p] = 0]
  /\ requestLogs' = [requestLogs EXCEPT ![p] = 0]
  /\ frames' = [frames EXCEPT ![p] = 0]
  /\ frameCall' = [frameCall EXCEPT ![p] = 0]
  /\ pc' = [pc EXCEPT ![p] = IF loopContinues(0) THEN "acquire" ELSE "done"]
  /\ result' = [result EXCEPT ![p] =
                  IF loopContinues(0) THEN NoResult
                  ELSE ExternalServiceError(NoError)]
  /\ UNCHANGED <<poolVars, settingVars>>
  /\ UNCHANGED auxVars

\* the head of the try block: getNextKey, then either the throw of the
\* AppError "No available API keys" (caught by the same iteration) or the
\* upstream call is issued and awaited
Acquire(p) ==
  /\ pc[p] = "acquire"
  /\ LET key == getNextKey(apiKeys, failedKeys, currentKeyIndex)
     IN  /\ key # NONE => currentKeyIndex < MaxCursor
         /\ currentKeyIndex' = nextKeyIndex(apiKeys, failedKeys, currentKeyIndex)
         /\ currentKey' = [currentKey EXCEPT ![p] = key]
         /\ IF key = NONE
              THEN /\ Catch(p, NONE, NoKeyError)
                   /\ noKeys' = [noKeys EXCEPT ![p] = @ + 1]
                   /\ UNCHANGED calls
              ELSE /\ pc' = [pc EXCEPT ![p] = "call"]
                   /\ calls' = [calls EXCEPT ![p] = @ + 1]
                   /\ UNCHANGED <<failedKeys, served, attempt, lastError,
                                  result, noKeys, lastFailure>>
  /\ UNCHANGED <<apiKeys, settingVars, kind, sinkRejected, errorLogs,
                 requestLogs, frames, frameCall>>
  /\ UNCHANGED auxVars

\* the attempt succeeded upstream: await createRequestLog, or return
AfterUpstream(p) ==
  IF REQUEST_LOG_ENABLED
    THEN /\ pc' = [pc EXCEPT ![p] = "logreq"]
         /\ UNCHANGED result
    ELSE /\ pc' = [pc EXCEPT ![p] = "done"]
         /\ result' = [result EXCEPT ![p] = Success]

\* axios.post settles
Response(p, status) ==
  /\ pc[p] = "call"
  /\ IF status = OK
       THEN /\ IF kind[p] = "streamGenerateContent"
                 THEN /\ pc' = [pc EXCEPT ![p] = "streaming"]
                      /\ UNCHANGED result
                 ELSE AfterUpstream(p)
            /\ UNCHANGED <<failedKeys, served, attempt, lastError, lastFailure>>
       ELSE Catch(p, currentKey[p], AxiosError(status))
  /\ UNCHANGED <<apiKeys, currentKeyIndex, settingVars, kind, currentKey, calls,
                 noKeys, sinkRejected, errorLogs, requestLogs, frames, frameCall>>
  /\ UNCHANGED auxVars

\* the upstream stream delivers a decodable data line: the generator yields
StreamFrame(p) ==
  /\ pc[p] = "streaming"
  /\ frames[p] < MaxFrames
  /\ frames' = [frames EXCEPT ![p] = @ + 1]
  /\ frameCall' = [frameCall EXCEPT ![p] = calls[p]]
  /\ UNCHANGED <<poolVars, settingVars, pc, kind, attempt, currentKey, lastError,
                 result, calls, noKeys, lastFailure, sinkRejected, errorLogs,
                 requestLogs>>
  /\ UNCHANGED auxVars

\* the upstream stream ends
StreamEnd(p) ==
  /\ pc[p] = "streaming"
  /\ AfterUpstream(p)
  /\ UNCHANGED <<poolVars, settingVars, kind, attempt, currentKey, lastError,
                 obsVars>>
  /\ UNCHANGED auxVars

\* the upstream stream fails while it is read
StreamFail(p) ==
  /\ pc[p] = "streaming"
  /\ Catch(p, currentKey[p], StreamError)
  /\ UNCHANGED <<apiKeys, currentKeyIndex, settingVars, kind, currentKey, calls,
                 noKeys, sinkRejected, errorLogs, requestLogs, frames, frameCall>>
  /\ UNCHANGED auxVars

\* databaseService.createRequestLog settles: stored, or it rethrows
RequestLogged(p, accepted) ==
  /\ pc[p] = "logreq"
  /\ IF accepted
       THEN /\ requestLogs' = [requestLogs EXCEPT ![p] = @ + 1]
            /\ pc' = [pc EXCEPT ![p] = "done"]
            /\ result' = [result EXCEPT ![p] = Success]
            /\ UNCHANGED <<failedKeys, served, attempt, lastError, lastFailure,
                           sinkRejected>>
       ELSE /\ Catch(p, currentKey[p], SinkError)
            /\ sinkRejected' = [sinkRejected EXCEPT ![p] = TRUE]
            /\ UNCHANGED requestLogs
  /\ UNCHANGED <<apiKeys, currentKeyIndex, settingVars, kind, currentKey, calls,
                 noKeys, errorLogs, frames, frameCall>>
  /\ UNCHANGED auxVars

\* databaseService.createErrorLog settles: stored and the catch block goes
\* on, or it rethrows out of the catch block and out of the method
ErrorLogged(p, accepted) ==
  /\ pc[p] = "logerr"
  /\ IF accepted
       THEN /\ errorLogs' = [errorLogs EXCEPT ![p] = @ + 1]
            /\ CatchTail(p, lastError[p])
            /\ UNCHANGED sinkRejected
       ELSE /\ pc' = [pc EXCEPT ![p] = "done"]
            /\ result' = [result EXCEPT ![p] = SinkThrown]
            /\ sinkRejected' = [sinkRejected EXCEPT ![p] = TRUE]
            /\ UNCHANGED <<errorLogs, attempt>>
  /\ UNCHANGED <<poolVars, settingVars, kind, currentKey, lastError, calls,
                 noKeys, lastFailure, requestLogs, frames, frameCall>>
  /\ UNCHANGED auxVars

\* getNextKey called from elsewhere: ModelService.getModels, or the retry
\* loop of an operation running beside this one
OtherGetNextKey ==
  /\ LET key == getNextKey(apiKeys, failedKeys, currentKeyIndex)
     IN  /\ key # NONE
         /\ currentKeyIndex < MaxCursor
         /\ currentKeyIndex' = nextKeyIndex(apiKeys, failedKeys, currentKeyIndex)
  /\ UNCHANGED <<apiKeys, failedKeys, served, settingVars, pc, kind, attempt, currentKey,
                 lastError, result, obsVars>>
  /\ UNCHANGED auxVars

\* the catch block of an operation running beside this one marks the key it
\* drew earlier
OtherMarkKeyAsFailed(key) ==
  /\ \E i \in 1..Len(apiKeys) : apiKeys[i] = key
  /\ key \notin failedKeys
  /\ failedKeys' = markKeyAsFailed(failedKeys, key)
  /\ UNCHANGED <<apiKeys, currentKeyIndex, served, settingVars, pc, kind, attempt,
                 currentKey, lastError, result, obsVars>>
  /\ UNCHANGED auxVars

\* the administrative reset
ResetFailedKeys ==
  /\ failedKeys # {}
  /\ failedKeys' = resetFailedKeys
  /\ UNCHANGED <<apiKeys, currentKeyIndex, served, settingVars, pc, kind, attempt,
                 currentKey, lastError, result, obsVars>>
  /\ UNCHANGED auxVars

Next ==
  \/ \E p \in Ops, k \in Kinds : Start(p, k)
  \/ \E p \in Ops : Acquire(p)
  \/ \E p \in Ops, s \in UpstreamStatuses : Response(p, s)
  \/ \E p \in Ops : StreamFrame(p)
  \/ \E p \in Ops : StreamEnd(p)
  \/ \E p \in Ops : StreamFail(p)
  \/ \E p \in Ops, a \in BOOLEAN : RequestLogged(p, a)
  \/ \E p \in Ops, a \in BOOLEAN : ErrorLogged(p, a)
  \/ OtherGetNextKey
  \/ \E key \in Keys : OtherMarkKeyAsFailed(key)
  \/ ResetFailedKeys

Spec == Init /\ [][Next]_vars

\* ---- the pool observed alone: any sequence of calls of its methods ----

opVars == <<pc, kind, attempt, currentKey, lastError, result, obsVars>>

CallGetNextKey ==
  /\ currentKeyIndex < MaxCalls
  /\ served' = pushServed(served, getNextKey(apiKeys, failedKeys, currentKeyIndex))
  /\ currentKeyIndex' = nextKeyIndex(apiKeys, failedKeys, currentKeyIndex)
  /\ UNCHANGED <<apiKeys, failedKeys, settingVars, opVars>>
  /\ UNCHANGED auxVars

CallMarkKeyAsFailed(key) ==
  /\ \E i \in 1..Len(apiKeys) : apiKeys[i] = key
  /\ failedKeys' = markKeyAsFailed(failedKeys, key)
  /\ served' = IF failedKeys' = failedKeys THEN served ELSE <<>>
  /\ UNCHANGED <<apiKeys, currentKeyIndex, settingVars, opVars>>
  /\ UNCHANGED auxVars

CallResetFailedKeys ==
  /\ failedKeys' = resetFailedKeys
  /\ served' = IF failedKeys' = failedKeys THEN served ELSE <<>>
  /\ UNCHANGED <<apiKeys, currentKeyIndex, settingVars, opVars>>
  /\ UNCHANGED auxVars

NextPool ==
  \/ CallGetNextKey
  \/ \E key \in Keys : CallMarkKeyAsFailed(key)
  \/ CallResetFailedKeys

SpecPool == Init /\ [][NextPool]_vars

\* ---- the scheduler beside the pool: requests and the key check task ----

\* what the callback of keyCheckTask does to KeyManager.failedKeys: its body
\* is logger.debug and a TODO, the call of checkKeyHealth is commented out
keyCheckTask(failed) == failed

\* one tick of the cron schedule startScheduler registers for the key check
\* (settings.SCHEDULER_ENABLED is true by default)
KeyCheckTask ==
  /\ failedKeys' = keyCheckTask(failedKeys)
  /\ logged' = logged \cup {[sink |-> "logger.debug", key |-> NONE,
                              text |-> "Running key health check..."]}
  /\ served' = IF failedKeys' = failedKeys THEN served ELSE <<>>
  /\ UNCHANGED <<apiKeys, currentKeyIndex, settingVars, opVars, relayVars, routeVars>>

\* the deployed program around the pool: requests draw keys and mark them
\* failed, the schedule ticks; nothing in the repository calls resetFailedKeys
NextSched ==
  \/ CallGetNextKey
  \/ \E key \in Keys : CallMarkKeyAsFailed(key)
  \/ KeyCheckTask

SpecSched == Init /\ [][NextSched]_vars

\* ---- credentials as text: what reaches the log sink and the logger ----

\* a credential is a text; KeyManager handles it as an opaque value
KeyStrings == UNION {[1..n -> {"A", "z"}] : n \in 1..MaxKeyLen}

\* GeminiChatService.sanitizeKey and KeyManager.sanitizeKey (the same body)
sanitizeKey(key) ==
  IF Len(key) <= 8 THEN key
  ELSE SubSeq(key, 1, 4) \o <<".", ".", ".">> \o SubSeq(key, Len(key) - 3, Len(key))

\* JSON.stringify of an array of strings
stringifyKeys(keys) ==
  LET RECURSIVE join(_)
      join(i) == IF i > Len(keys) THEN <<"]">>
                 ELSE (IF i > 1 THEN <<",">> ELSE <<>>)
                        \o <<"\"">> \o keys[i] \o <<"\"">> \o join(i + 1)
  IN  <<"[">> \o join(1)

\* one thing written: where it went, the key it is about, the text written
LogEntry(sink, key, text) == [sink |-> sink, key |-> key, text |-> text]

\* a request draws a key and succeeds: logger.debug in getNextKey, the
\* request-log record and logger.info of the operation
LogSuccess ==
  /\ Len(availableKeys(apiKeys, failedKeys)) > 0
  /\ currentKeyIndex < MaxCursor
  /\ LET key == getNextKey(apiKeys, failedKeys, currentKeyIndex)
     IN  logged' = logged \cup
           {LogEntry("logger.debug", key, sanitizeKey(key)),
            LogEntry("requestLog.geminiKey", key, sanitizeKey(key)),
            LogEntry("logger.info", key, sanitizeKey(key))}
  /\ currentKeyIndex' = nextKeyIndex(apiKeys, failedKeys, currentKeyIndex)
  /\ UNCHANGED <<apiKeys, failedKeys, served, settingVars, opVars, relayVars, routeVars>>

\* a request draws a key and fails: logger.debug in getNextKey, logger.warn
\* in markKeyAsFailed, the error-log record and logger.error of the operation
LogFailure ==
  /\ Len(availableKeys(apiKeys, failedKeys)) > 0
  /\ currentKeyIndex < MaxCursor
  /\ LET key == getNextKey(apiKeys, failedKeys, currentKeyIndex)
     IN  /\ failedKeys' = markKeyAsFailed(failedKeys, key)
         /\ logged' = logged \cup
               {LogEntry("logger.debug", key, sanitizeKey(key)),
                LogEntry("logger.warn", key, sanitizeKey(key)),
                LogEntry("errorLog.geminiKey", key, sanitizeKey(key)),
                LogEntry("logger.error", key, sanitizeKey(key))}
  /\ currentKeyIndex' = nextKeyIndex(apiKeys, failedKeys, currentKeyIndex)
  /\ UNCHANGED <<apiKeys, served, settingVars, opVars, relayVars, routeVars>>

\* getNextKey finds every key failed: logger.error prints apiKeys and
\* failedKeys through JSON.stringify
LogNoAvailableKeys ==
  /\ Len(availableKeys(apiKeys, failedKeys)) = 0
  /\ logged' = logged \cup
       {LogEntry("logger.error", apiKeys[i], stringifyKeys(apiKeys))
          : i \in 1..Len(apiKeys)}
  /\ UNCHANGED <<poolVars, settingVars, opVars, relayVars, routeVars>>

InitRedact ==
  /\ apiKeys \in {<<k>> : k \in KeyStrings}
  /\ currentKeyIndex = 0
  /\ failedKeys = {}
  /\ served = <<>>
  /\ REQUEST_LOG_ENABLED = TRUE
  /\ ERROR_LOG_ENABLED = TRUE
  /\ NoRequest
  /\ logged = {}
  /\ NoRelay
  /\ NoRoute

NextRedact ==
  \/ LogSuccess
  \/ LogFailure
  \/ LogNoAvailableKeys

SpecRedact == InitRedact /\ [][NextRedact]_vars

\* ---- the streaming relay: the response stream read chunk by chunk ----

\* the marker 'data: ' of an event line
DataMarker == <<"d", "a", "t", "a", ":", " ">>

\* the pieces response streams are put together from, as bytes: two events,
\* an event whose payload is not JSON, the [DONE] line, and an indented
\* event line ended by a CR that no newline follows, whose payload holds a
\* character of two bytes (0xC3 0xA9).  An ASCII byte is written as its
\* character.
Segments ==
  {DataMarker \o <<"{", "\"", "a", "\"", ":", "1", "}", "\n", "\n">>,
   DataMarker \o <<"{", "\"", "b", "\"", ":", "2", "}", "\n", "\n">>,
   DataMarker \o <<"n", "o", "t", "-", "j", "s", "o", "n", "\n">>,
   DataMarker \o <<"[", "D", "O", "N", "E", "]", "\n", "\n">>,
   <<" ">> \o DataMarker
     \o <<"{", "\"", "t", "\"", ":", "\"", "0xC3", "0xA9", "\"", "}", "\r">>}

RECURSIVE Streams(_)
Streams(n) ==
  IF n = 0 THEN {<<>>}
  ELSE Streams(n - 1) \cup {s \o g : s \in Streams(n - 1), g \in Segments}

\* the response streams read: up to n pieces, or a line of JSON without the
\* marker with at most one piece before it and one after it
ResponseStreams(n) ==
  Streams(n) \cup
    {s \o <<"{", "\"", "b", "\"", ":", "2", "}", "\n">> \o g
       : s \in Streams(1), g \in Streams(1)}

\* Buffer.toString(): UTF-8 decoding of one chunk on its own; a byte of a
\* character whose other byte is not in the chunk becomes U+FFFD
toString(bytes) ==
  LET RECURSIVE decode(_, _)
      decode(i, text) ==
        IF i > Len(bytes) THEN text
        ELSE IF bytes[i] = "0xC3" /\ i < Len(bytes) /\ bytes[i + 1] = "0xA9"
          THEN decode(i + 2, Append(text, "U+00E9"))
        ELSE IF bytes[i] \in {"0xC3", "0xA9"}
          THEN decode(i + 1, Append(text, "U+FFFD"))
        ELSE decode(i + 1, Append(text, bytes[i]))
  IN  decode(1, <<>>)

\* text.split('\n'): the lines of a text, the last one being what follows
\* the last newline
splitLines(text) ==
  LET RECURSIVE scan(_, _, _)
      scan(i, line, lines) ==
        IF i > Len(text) THEN Append(lines, line)
        ELSE IF text[i] = "\n" THEN scan(i + 1, <<>>, Append(lines, line))
        ELSE scan(i + 1, Append(line, text[i]), lines)
  IN  scan(1, <<>>, <<>>)

\* String.prototype.trim
trim(text) ==
  LET space == {" ", "\t", "\r", "\n"}
      RECURSIVE first(_), last(_)
      first(i) == IF i <= Len(text) /\ text[i] \in space THEN first(i + 1) ELSE i
      last(i) == IF i >= 1 /\ text[i] \in space THEN last(i - 1) ELSE i
  IN  SubSeq(text, first(1), last(Len(text)))

\* JSON.parse, on the texts that occur ({"a":1}, {"b":2} and {"t":"..."}):
\* the value, or a SyntaxError
JSONparse(text) ==
  LET t == trim(text)
      n == Len(t)
  IN  CASE t = <<"{", "\"", "a", "\"", ":", "1", "}">> -> [ok |-> TRUE, value |-> [a |-> 1]]
        [] t = <<"{", "\"", "b", "\"", ":", "2", "}">> -> [ok |-> TRUE, value |-> [b |-> 2]]
        [] /\ n >= 8
           /\ SubSeq(t, 1, 6) = <<"{", "\"", "t", "\"", ":", "\"">>
           /\ SubSeq(t, n - 1, n) = <<"\"", "}">>
           /\ \A i \in 7..(n - 2) : t[i] \notin {"\"", "\\", "\n", "\r", "\t"}
             -> [ok |-> TRUE, value |-> [t |-> SubSeq(t, 7, n - 2)]]
        [] OTHER -> [ok |-> FALSE, value |-> "SyntaxError"]

onParseError_rethrow == [yield |-> <<>>, thrown |-> TRUE]

\* catch (parseError) { logger.debug(...) }: nothing yielded, nothing thrown
onParseError == [yield |-> <<>>, thrown |-> FALSE]

relayLine_twice(line) ==
  LET t == trim(line)
      parsed == JSONparse(SubSeq(t, 7, Len(t)))
  IN  IF Len(t) >= 6 /\ SubSeq(t, 1, 6) = DataMarker /\ parsed.ok
        THEN [yield |-> <<parsed.value, parsed.value>>, thrown |-> FALSE]
        ELSE [yield |-> <<>>, thrown |-> FALSE]

\* the body of the loop over the lines: what one line makes the generator
\* yield, and whether an exception leaves the loop
relayLine(line) ==
  LET t == trim(line)
  IN  IF Len(t) >= 6 /\ SubSeq(t, 1, 6) = DataMarker
        THEN LET parsed == JSONparse(SubSeq(t, 7, Len(t)))
             IN  IF parsed.ok THEN [yield |-> <<parsed.value>>, thrown |-> FALSE]
                 ELSE onParseError
        ELSE [yield |-> <<>>, thrown |-> FALSE]

\* for (const line of lines): line after line until one throws
relayLines(lines) ==
  LET RECURSIVE from(_, _)
      from(i, out) ==
        IF i > Len(lines) THEN [yield |-> out, thrown |-> FALSE]
        ELSE IF relayLine(lines[i]).thrown THEN [yield |-> out, thrown |-> TRUE]
        ELSE from(i + 1, out \o relayLine(lines[i]).yield)
  IN  from(1, <<>>)

\* buffer = lines.pop() ?? ''
fragment(lines) == lines[Len(lines)]

\* an exception leaves the for-await loop: the catch block of the attempt
RelayThrown(p) ==
  /\ relay' = "failed"
  /\ failedKeys' = markKeyAsFailed(failedKeys, currentKey[p])
  /\ lastFailure' = [lastFailure EXCEPT ![p] = StreamError.message]
  /\ UNCHANGED <<pc, result>>

\* one chunk of n bytes arrives: it is decoded and appended to the buffer,
\* the complete lines are relayed and the rest is kept
RelayChunk(p, n) ==
  /\ relay = "reading"
  /\ n \in 1..Len(upstream)
  /\ \E chunk \in {SubSeq(upstream, 1, n)} :
     \E lines \in {splitLines(buffer \o toString(chunk))} :
     \E out \in {relayLines(SubSeq(lines, 1, Len(lines) - 1))} :
         /\ upstream' = SubSeq(upstream, n + 1, Len(upstream))
         /\ arrived' = arrived \o chunk
         /\ buffer' = fragment(lines)
         /\ yielded' = yielded \o out.yield
         /\ frames' = [frames EXCEPT ![p] = Len(yielded')]
         /\ IF out.thrown
              THEN RelayThrown(p)
              ELSE UNCHANGED <<relay, failedKeys, lastFailure, pc, result>>
  /\ UNCHANGED <<apiKeys, currentKeyIndex, served, settingVars, kind, attempt,
                 currentKey, lastError, calls, noKeys, sinkRejected, errorLogs,
                 requestLogs, frameCall, logged, routeVars>>

\* the response stream ends: what is left in the buffer is relayed as a
\* line, and the attempt has succeeded
RelayEnd(p) ==
  /\ relay = "reading"
  /\ upstream = <<>>
  /\ LET out == IF trim(buffer) # <<>> THEN relayLine(buffer)
                ELSE [yield |-> <<>>, thrown |-> FALSE]
     IN  /\ yielded' = yielded \o out.yield
         /\ frames' = [frames EXCEPT ![p] = Len(yielded')]
         /\ IF out.thrown
              THEN RelayThrown(p)
              ELSE /\ relay' = "ended"
                   /\ AfterUpstream(p)
                   /\ UNCHANGED <<failedKeys, lastFailure>>
  /\ UNCHANGED <<apiKeys, currentKeyIndex, served, settingVars, kind, attempt,
                 currentKey, lastError, calls, noKeys, sinkRejected, errorLogs,
                 requestLogs, frameCall, logged, upstream, arrived, buffer,
                 routeVars>>

\* an attempt of streamGenerateContent whose upstream call has answered 200
InitRelay ==
  /\ apiKeys = <<1>>
  /\ currentKeyIndex = 1
  /\ failedKeys = {}
  /\ served = <<>>
  /\ REQUEST_LOG_ENABLED = FALSE
  /\ ERROR_LOG_ENABLED = FALSE
  /\ pc = [p \in Ops |-> "streaming"]
  /\ kind = [p \in Ops |-> "streamGenerateContent"]
  /\ attempt = [p \in Ops |-> 0]
  /\ currentKey = [p \in Ops |-> 1]
  /\ lastError = [p \in Ops |-> NoError]
  /\ result = [p \in Ops |-> NoResult]
  /\ calls = [p \in Ops |-> 1]
  /\ noKeys = [p \in Ops |-> 0]
  /\ lastFailure = [p \in Ops |-> "none"]
  /\ sinkRejected = [p \in Ops |-> FALSE]
  /\ errorLogs = [p \in Ops |-> 0]
  /\ requestLogs = [p \in Ops |-> 0]
  /\ frames = [p \in Ops |-> 0]
  /\ frameCall = [p \in Ops |-> 1]
  /\ logged = {}
  /\ upstream \in ResponseStreams(MaxSegments)
  /\ arrived = <<>>
  /\ buffer = <<>>
  /\ yielded = <<>>
  /\ relay = "reading"
  /\ NoRoute

NextRelay ==
  \/ \E p \in Ops, n \in 1..MaxChunk : RelayChunk(p, n)
  \/ \E p \in Ops : RelayEnd(p)

SpecRelay == InitRelay /\ [][NextRelay]_vars

\* ---- the route handlers: one HTTP request from its arrival to its answer ----

\* what request.params['*'] is put together from: a character of a model
\* id, a blank, the colon, and the names an operation may have
ParamChoices ==
  LET atoms == {"m", " ", ":", "generateContent", "streamGenerateContent",
                "embedContent", "batchEmbedContents", "countTokens", "tokens"}
  IN  UNION {[1..n -> atoms] : n \in 0..MaxParamLen}

indexOf_last(text, c) ==
  IF \E i \in 1..Len(text) : text[i] = c
    THEN CHOOSE i \in 1..Len(text) :
           text[i] = c /\ \A j \in (i + 1)..Len(text) : text[j] # c
    ELSE 0

\* String.prototype.indexOf, counted from 1: 0 when c does not occur
indexOf(text, c) ==
  IF \E i \in 1..Len(text) : text[i] = c
    THEN CHOOSE i \in 1..Len(text) :
           text[i] = c /\ \A j \in 1..(i - 1) : text[j] # c
    ELSE 0

validOperations ==
  {"generateContent", "streamGenerateContent", "embedContent", "countTokens"}

\* parseModelRequest: the model id and the operation, or the AppError thrown
parseModelRequest(text) ==
  LET colonIndex == indexOf(text, ":")
      modelId == SubSeq(text, 1, colonIndex - 1)
      operation == SubSeq(text, colonIndex + 1, Len(text))
      rejected == [statusCode |-> BAD_REQUEST, modelId |-> <<>>, operation |-> <<>>]
  IN  IF colonIndex = 0 THEN rejected
      ELSE IF modelId = <<>> \/ trim(modelId) = <<>> THEN rejected
      ELSE IF ~(Len(operation) = 1 /\ operation[1] \in validOperations) THEN rejected
      ELSE [statusCode |-> OK, modelId |-> modelId, operation |-> operation]

\* POST /models/* up to its dispatch: the wildcard is parsed; the AppError
\* leaves the handler and the error handler answers with its status
ParseModelRequest(text) ==
  /\ route = "none"
  /\ route' = "parse"
  /\ params' = text
  /\ derived' = parseModelRequest(text)
  /\ reply' = IF derived'.statusCode = OK THEN 0 ELSE derived'.statusCode
  /\ hpc' = IF derived'.statusCode = OK THEN "dispatch" ELSE "done"
  /\ UNCHANGED <<poolVars, settingVars, opVars, logged, relayVars, clientGone,
                 body, wire>>

\* body.contents: up to MaxTurns turns; a turn has no parts field, or parts
\* of which each has a text (possibly empty) or is something else
ContentsChoices ==
  LET other == [hasText |-> FALSE, text |-> ""]
      text(t) == [hasText |-> TRUE, text |-> t]
      turns == {[hasParts |-> FALSE, parts |-> <<>>],
                [hasParts |-> TRUE, parts |-> <<other>>],
                [hasParts |-> TRUE, parts |-> <<text("")>>],
                [hasParts |-> TRUE, parts |-> <<text("hi")>>],
                [hasParts |-> TRUE, parts |-> <<other, text("yo")>>],
                [hasParts |-> TRUE, parts |-> <<text("hi"), text("yo")>>]}
  IN  UNION {[1..n -> turns] : n \in 0..MaxTurns}

extractTextFromContents_firstPart(contents) ==
  LET RECURSIVE scan(_)
      scan(i) ==
        IF i > Len(contents) THEN ""
        ELSE IF /\ contents[i].hasParts
                /\ Len(contents[i].parts) > 0
                /\ contents[i].parts[1].hasText
                /\ contents[i].parts[1].text # ""
          THEN contents[i].parts[1].text
        ELSE scan(i + 1)
  IN  scan(1)

\* extractTextFromContents: the two loops, turn after turn and part after
\* part, returning at the first part whose text is truthy; '' when none is
extractTextFromContents(contents) ==
  LET RECURSIVE scan(_, _)
      scan(i, j) ==
        IF i > Len(contents) THEN ""
        ELSE IF ~contents[i].hasParts \/ j > Len(contents[i].parts)
          THEN scan(i + 1, 1)
        ELSE IF contents[i].parts[j].hasText /\ contents[i].parts[j].text # ""
          THEN contents[i].parts[j].text
        ELSE scan(i, j + 1)
  IN  scan(1, 1)

\* handleTTSRequest up to its await: the text is extracted; without a text
\* the AppError leaves the handler and the error handler answers 400, with
\* a text ttsService.generateSpeech calls geminiChatService.generateContent
HandleTTSRequest(contents) ==
  /\ route = "none"
  /\ route' = "tts"
  /\ body' = [NoBody EXCEPT !.contents = contents]
  /\ derived' = extractTextFromContents(contents)
  /\ IF derived' = ""
       THEN hpc' = "done" /\ reply' = BAD_REQUEST
       ELSE hpc' = "service" /\ reply' = 0
  /\ UNCHANGED <<poolVars, settingVars, opVars, logged, relayVars, clientGone,
                 params, wire>>

\* generateContent has settled: generateSpeech returns the audio of the
\* response, or throws its ExternalServiceError when the call failed or the
\* response holds no audio; handleTTSRequest sends the audio or rethrows
TTSReply(p, audio) ==
  /\ route = "tts"
  /\ hpc = "service"
  /\ pc[p] = "done"
  /\ hpc' = "done"
  /\ reply' = IF result[p] = Success /\ audio THEN OK
              ELSE ExternalServiceError(NoError).statusCode
  /\ UNCHANGED <<poolVars, settingVars, opVars, logged, relayVars, clientGone,
                 route, params,
                 body, derived, wire>>

\* the payloads embedContent is called with: content given or not, turns
\* in contents, messages whose content is a text (possibly empty)
PayloadChoices ==
  [content : {"", "given"},
   contents : ContentsChoices,
   messages : UNION {[1..n -> {"", "hi"}] : n \in 0..MaxTurns}]

\* embedContent, "prefer provided content; otherwise derive from
\* contents/messages": the content sent upstream, "" when there is none
deriveContent(payload) ==
  LET contents == payload.contents
      messages == payload.messages
      truthy(part) == part.hasText /\ part.text # ""
      hasText(c) == c.hasParts /\ \E j \in 1..Len(c.parts) : truthy(c.parts[j])
      find(seq, Test(_)) ==
        IF \E i \in 1..Len(seq) : Test(seq[i])
          THEN CHOOSE i \in 1..Len(seq) :
                 Test(seq[i]) /\ \A k \in 1..(i - 1) : ~Test(seq[k])
          ELSE 0
      first == find(contents, hasText)
      msg == find(messages, LAMBDA m : m # "")
  IN  IF payload.content # "" THEN payload.content
      ELSE IF Len(contents) > 0
        THEN IF first = 0 THEN ""
             ELSE contents[first].parts[find(contents[first].parts, truthy)].text
      ELSE IF Len(messages) > 0
        THEN IF msg = 0 THEN "" ELSE messages[msg]
      ELSE ""

\* new AppError('No content provided for embeddings', BAD_REQUEST): it has
\* a statusCode but no response
NoContentError ==
  [message |-> "No content provided for embeddings", status |-> NONE,
   statusCode |-> BAD_REQUEST]

\* embedContent is called with a payload
EmbedContent(payload) ==
  /\ route = "none"
  /\ route' = "embed"
  /\ body' = payload
  /\ hpc' = "service"
  /\ UNCHANGED <<poolVars, settingVars, opVars, logged, relayVars, clientGone,
                 params,
                 derived, reply, wire>>

\* the head of embedContent's try block: getNextKey, the throw of "No
\* available API keys", the content is derived, the throw of "No content
\* provided", or the upstream call is issued and awaited
EmbedAcquire(p) ==
  /\ route = "embed"
  /\ pc[p] = "acquire"
  /\ LET key == getNextKey(apiKeys, failedKeys, currentKeyIndex)
     IN  /\ key # NONE => currentKeyIndex < MaxCursor
         /\ currentKeyIndex' = nextKeyIndex(apiKeys, failedKeys, currentKeyIndex)
         /\ currentKey' = [currentKey EXCEPT ![p] = key]
         /\ IF key = NONE
              THEN /\ Catch(p, NONE, NoKeyError)
                   /\ noKeys' = [noKeys EXCEPT ![p] = @ + 1]
                   /\ UNCHANGED calls
              ELSE IF deriveContent(body) = ""
                THEN /\ Catch(p, key, NoContentError)
                     /\ UNCHANGED <<calls, noKeys>>
                ELSE /\ pc' = [pc EXCEPT ![p] = "call"]
                     /\ calls' = [calls EXCEPT ![p] = @ + 1]
                     /\ UNCHANGED <<failedKeys, served, attempt, lastError,
                                    result, noKeys, lastFailure>>
  /\ UNCHANGED <<apiKeys, settingVars, kind, sinkRejected, errorLogs,
                 requestLogs, frames, frameCall>>
  /\ UNCHANGED auxVars

\* one call on reply.raw (write of a data frame, of an error frame, of the
\* [DONE] line, or end), or the reply.send Fastify makes for a rejection
Call(type, text) == [type |-> type, body |-> text]

\* reply.sent: the raw response has ended or the reply was sent
replySent(w) == \E i \in 1..Len(w) : w[i].type \in {"end", "send"}

isStreamRequest_operation(text) ==
  Len(text) > 0 /\ text[Len(text)] = "streamGenerateContent"

\* the test of the catch block of POST /models/*:
\* request.params['*'] === 'streamGenerateContent'
isStreamRequest(text) == text = <<"streamGenerateContent">>

afterThrow_done(dialect, w, text, message) ==
  w \o <<Call("done", "[DONE]"), Call("error", message), Call("end", "")>>

\* an error leaves the loop over the generator (or the model check): the
\* calls on the response once the catch blocks have run.  Native: the catch
\* of handleStreamGenerateContent, which rethrows, the catch of the route,
\* and Fastify, which sends the error unless the reply was sent.  OpenAI:
\* the catch of handleStreamingChat, which does not rethrow
afterThrow(dialect, w, text, message) ==
  LET frame == <<Call("error", message), Call("end", "")>>
      inner == IF ~replySent(w) THEN w \o frame ELSE w
  IN  IF dialect = "openai" THEN w \o frame
      ELSE IF isStreamRequest(text) THEN inner \o frame
      ELSE IF replySent(inner) THEN inner
      ELSE Append(inner, Call("send", message))

\* a streaming request arrives.  Native: POST /models/<model>:stream-
\* GenerateContent reaches handleStreamGenerateContent, which awaits
\* isModelSupported and throws when the model is not supported.  OpenAI:
\* /chat/completions with stream = true reaches handleStreamingChat
StreamRequest(dialect, supported) ==
  /\ route = "none"
  /\ route' = dialect
  /\ params' = IF dialect = "native" THEN <<"m", ":", "streamGenerateContent">>
               ELSE <<>>
  /\ IF dialect = "native" /\ ~supported
       THEN /\ hpc' = "failed"
            /\ wire' = afterThrow(dialect, wire, params', "Model m is not supported")
       ELSE /\ hpc' = "streaming"
            /\ wire' = wire
  /\ UNCHANGED <<poolVars, settingVars, opVars, logged, relayVars, clientGone,
                 body, derived,
                 reply>>

\* the generator yields a chunk: one data frame is written
StreamChunk(chunk) ==
  /\ hpc = "streaming"
  /\ Len(wire) < MaxFrames
  /\ wire' = Append(wire, Call("data", chunk))
  /\ UNCHANGED <<poolVars, settingVars, opVars, logged, relayVars, clientGone,
                 route, hpc,
                 params, body, derived, reply>>

\* the generator returns: handleStreamingChat writes the [DONE] line, and
\* the response is ended
StreamReturn ==
  /\ hpc = "streaming"
  /\ hpc' = "returned"
  /\ wire' = wire \o (IF route = "openai" THEN <<Call("done", "[DONE]")>> ELSE <<>>)
                  \o <<Call("end", "")>>
  /\ UNCHANGED <<poolVars, settingVars, opVars, logged, relayVars, clientGone,
                 route, params,
                 body, derived, reply>>

\* the generator throws: the operation has failed for good
StreamThrow(message) ==
  /\ hpc = "streaming"
  /\ hpc' = "failed"
  /\ wire' = afterThrow(route, wire, params, message)
  /\ UNCHANGED <<poolVars, settingVars, opVars, logged, relayVars, clientGone,
                 route, params,
                 body, derived, reply>>

\* TTSService.isTTSRequest: request.responseModalities ?? [] includes 'AUDIO'
isTTSRequest(modalities) == \E i \in 1..Len(modalities) : modalities[i] = "AUDIO"

\* the handler a request with these responseModalities is given to: the
\* switch of POST /models/* tests isTTSRequest in its generateContent case
\* only; POST /chat/completions converts the body with convertOpenAIToGemini,
\* which keeps model, contents and generationConfig, and does not test it
handlerOf(entry, modalities) ==
  CASE entry = "models:generateContent" ->
         IF isTTSRequest(modalities) THEN "handleTTSRequest" ELSE "generateContent"
    [] entry = "models:streamGenerateContent" -> "handleStreamGenerateContent"
    [] entry = "chat/completions" -> "generateContent"
    [] entry = "chat/completions stream" -> "handleStreamingChat"

\* a request arrives at POST /models/* or POST /chat/completions and is
\* given to its handler
Dispatch(entry, modalities) ==
  /\ route = "none"
  /\ route' = "dispatch"
  /\ hpc' = "done"
  /\ derived' = [entry |-> entry, responseModalities |-> modalities,
                 handler |-> handlerOf(entry, modalities)]
  /\ UNCHANGED <<poolVars, settingVars, opVars, logged, relayVars, clientGone,
                 params, body,
                 reply, wire>>

convertOpenAIToGemini_reversed(messages) ==
  [i \in 1..Len(messages) |->
     LET message == messages[Len(messages) + 1 - i]
     IN  [role |-> IF message.role = "assistant" THEN "model" ELSE message.role,
          parts |-> <<[text |-> message.content]>>]]

\* the contents convertOpenAIToGemini builds (and GeminiChatService.
\* convertMessagesToContents, which has the same body): messages.map
convertOpenAIToGemini(messages) ==
  [i \in 1..Len(messages) |->
     [role |-> IF messages[i].role = "assistant" THEN "model" ELSE messages[i].role,
      parts |-> <<[text |-> messages[i].content]>>]]

convertFinishReason_safetyStop(geminiReason) ==
  CASE geminiReason = "MAX_TOKENS" -> "length"
    [] geminiReason = "RECITATION" -> "content_filter"
    [] OTHER -> "stop"

\* convertFinishReason: the switch, its default included
convertFinishReason(geminiReason) ==
  CASE geminiReason = "STOP" -> "stop"
    [] geminiReason = "MAX_TOKENS" -> "length"
    [] geminiReason = "SAFETY" -> "content_filter"
    [] geminiReason = "RECITATION" -> "content_filter"
    [] OTHER -> "stop"

\* the choices convertGeminiToOpenAI builds: one per candidate, index i
\* counted from 0, the texts of its parts joined
convertGeminiToOpenAI(candidates) ==
  LET RECURSIVE join(_, _)
      join(parts, i) ==
        IF i > Len(parts) THEN <<>> ELSE parts[i] \o join(parts, i + 1)
  IN  [i \in 1..Len(candidates) |->
         [index |-> i - 1,
          message |-> [role |-> "assistant",
                       content |-> join(candidates[i].parts, 1)],
          finish_reason |-> convertFinishReason(candidates[i].finishReason)]]

\* a field of the request body that may be left out
Absent == [given |-> FALSE, value |-> 0]
Given(v) == [given |-> TRUE, value |-> v]
\* a chat request that sets none of max_tokens, temperature, top_p and stop
NoOptions ==
  [max_tokens |-> Absent, temperature |-> Absent, top_p |-> Absent,
   stop |-> [given |-> FALSE, isArray |-> FALSE, value |-> <<>>]]

\* the generationConfig convertOpenAIToGemini builds: each field is copied
\* under "if (request.<field>)", a test of truthiness; stop is wrapped in a
\* list unless it is one (a stop string is kept here as the list of itself,
\* isArray telling the two apart)
generationConfig(request) ==
  LET copy(field) == IF field.given /\ field.value # 0 THEN field ELSE Absent
      stop == request.stop
      truthy == stop.given /\ (stop.isArray \/ stop.value # <<"">>)
  IN  [maxOutputTokens |-> copy(request.max_tokens),
       temperature |-> copy(request.temperature),
       topP |-> copy(request.top_p),
       stopSequences |-> IF truthy THEN Given(stop.value)
                        ELSE [given |-> FALSE, value |-> <<>>]]

\* POST /chat/completions without stream: the body is converted and
\* geminiChatService.generateContent is awaited
ChatCompletions(messages, options) ==
  /\ route = "none"
  /\ route' = "chat"
  /\ hpc' = "awaiting"
  /\ body' = [NoBody EXCEPT !.messages = messages]
  /\ derived' = [contents |-> convertOpenAIToGemini(messages),
                 candidates |-> <<>>, choices |-> <<>>,
                 request |-> options,
                 generationConfig |-> generationConfig(options)]
  /\ UNCHANGED <<poolVars, settingVars, opVars, logged, relayVars, clientGone,
                 params, reply,
                 wire>>

\* generateContent settles: its response is converted and sent, or its
\* error is rethrown and the error handler answers with its status
ChatReply(ok, candidates) ==
  /\ route = "chat"
  /\ hpc = "awaiting"
  /\ hpc' = "done"
  /\ IF ok
       THEN /\ derived' = [derived EXCEPT !.candidates = candidates,
                                          !.choices = convertGeminiToOpenAI(candidates)]
            /\ reply' = OK
       ELSE /\ derived' = derived
            /\ reply' = ExternalServiceError(NoError).statusCode
  /\ UNCHANGED <<poolVars, settingVars, opVars, logged, relayVars, clientGone,
                 route, params,
                 body, wire>>

\* buildPayload as far as contents go: payload.contents when it is given
\* (an empty list is given too), else the messages converted, else nothing
buildPayload(payload) ==
  IF payload.hasContents
    THEN [hasContents |-> TRUE, contents |-> payload.contents]
  ELSE IF payload.hasMessages
    THEN [hasContents |-> TRUE, contents |-> convertOpenAIToGemini(payload.messages)]
  ELSE [hasContents |-> FALSE, contents |-> <<>>]

\* the body the upstream call of an operation is issued with:
\* generateContent posts buildPayload(payload), countTokens posts
\* { contents: payload.contents ?? [] }
requestPayload(operation, payload) ==
  IF operation = "countTokens"
    THEN [hasContents |-> TRUE,
          contents |-> IF payload.hasContents THEN payload.contents ELSE <<>>]
    ELSE buildPayload(payload)

\* the switch of POST /models/* for the operations that answer with
\* reply.send: generateContent (not a TTS request) and countTokens await the
\* chat service with { model, ...body }; embedContent sends
\* { embedding: { values: [] } } at once
ModelsRequest(operation, payload) ==
  /\ route = "none"
  /\ route' = "models"
  /\ params' = <<"m", ":", operation>>
  /\ derived' = [request |-> payload, upstream |-> requestPayload(operation, payload)]
  /\ IF operation = "embedContent"
       THEN hpc' = "done" /\ reply' = OK
       ELSE hpc' = "service" /\ reply' = 0
  /\ UNCHANGED <<poolVars, settingVars, opVars, logged, relayVars, clientGone,
                 body, wire>>

\* the chat service settles: its result is sent, or its error is rethrown
\* and the error handler answers with its status
ModelsReply(p) ==
  /\ route = "models"
  /\ hpc = "service"
  /\ pc[p] = "done"
  /\ hpc' = "done"
  /\ reply' = result[p].statusCode
  /\ UNCHANGED <<poolVars, settingVars, opVars, logged, relayVars, clientGone,
                 route, params, body, derived, wire>>

\* the client closes the connection while the handler is in its loop over
\* the generator; neither handler listens for it
ClientDisconnect ==
  /\ hpc = "streaming"
  /\ ~clientGone
  /\ clientGone' = TRUE
  /\ UNCHANGED <<poolVars, settingVars, opVars, logged, relayVars, route, hpc,
                 params, body, derived, reply, wire>>

InitRoute ==
  /\ apiKeys \in PoolChoices
  /\ currentKeyIndex = 0
  /\ failedKeys = {}
  /\ served = <<>>
  /\ REQUEST_LOG_ENABLED = FALSE
  /\ ERROR_LOG_ENABLED = FALSE
  /\ NoRequest
  /\ logged = {}
  /\ NoRelay
  /\ NoRoute

NextRoute ==
  \/ route = "none" /\ \E text \in ParamChoices : ParseModelRequest(text)
  \/ /\ route = "none"
     /\ \E contents \in ContentsChoices : HandleTTSRequest(contents)
  \/ \E p \in Ops :
       /\ hpc = "service"
       /\ pc[p] = "idle"
       /\ Start(p, CASE route = "tts" -> "generateContent"
                      [] route = "models" -> params[3]
                      [] OTHER -> "embedContent")
  \/ \E p \in Ops : route \in {"tts", "models"} /\ Acquire(p)
  \/ route = "none" /\ \E payload \in PayloadChoices : EmbedContent(payload)
  \/ \E p \in Ops : EmbedAcquire(p)
  \/ \E p \in Ops, status \in UpstreamStatuses :
       hpc = "service" /\ Response(p, status)
  \/ \E p \in Ops, audio \in BOOLEAN : TTSReply(p, audio)
  \/ \E dialect \in {"native", "openai"}, supported \in BOOLEAN :
       StreamRequest(dialect, supported)
  \/ \E chunk \in {"chunk1", "chunk2"} : StreamChunk(chunk)
  \/ /\ route = "none"
     /\ \E entry \in {"models:generateContent", "models:streamGenerateContent",
                      "chat/completions", "chat/completions stream"},
           modalities \in UNION {[1..n -> {"TEXT", "AUDIO"}] : n \in 0..2} :
          Dispatch(entry, modalities)
  \/ /\ route = "none"
     /\ \E messages \in
            UNION {[1..n -> {[role |-> "system", content |-> "be brief"],
                             [role |-> "user", content |-> "hi"],
                             [role |-> "user", content |-> ""],
                             [role |-> "assistant", content |-> "hello"]}]
                     : n \in 0..MaxTurns} :
          ChatCompletions(messages, NoOptions)
  \/ /\ route = "none"
     /\ \E options \in
            [max_tokens : {Absent, Given(0), Given(256)},
             temperature : {Absent, Given(0), Given(1)},
             top_p : {Absent, Given(0), Given(1)},
             stop : {[given |-> FALSE, isArray |-> FALSE, value |-> <<>>],
                     [given |-> TRUE, isArray |-> FALSE, value |-> <<"">>],
                     [given |-> TRUE, isArray |-> FALSE, value |-> <<"END">>],
                     [given |-> TRUE, isArray |-> TRUE, value |-> <<>>],
                     [given |-> TRUE, isArray |-> TRUE, value |-> <<"END", ".">>]}] :
          ChatCompletions(<<[role |-> "user", content |-> "hi"]>>, options)
  \/ /\ hpc = "awaiting"
     /\ \E ok \in BOOLEAN,
           candidates \in
             UNION {[1..n -> [finishReason : {"STOP", "MAX_TOKENS", "SAFETY",
                                              "RECITATION", "OTHER"},
                              parts : {<<<<"a">>, <<>>, <<"b">>>>}]]
                      : n \in 0..MaxCandidates} :
          ChatReply(ok, candidates)
  \/ /\ route = "none"
     /\ \E operation \in {"generateContent", "countTokens", "embedContent"},
           payload \in
             LET text == [hasText |-> TRUE, text |-> "hi"]
                 turn == [hasParts |-> TRUE, parts |-> <<text>>]
                 empty == [hasParts |-> TRUE, parts |-> <<>>]
                 message == [role |-> "assistant", content |-> "hello"]
                 given(contents) == [hasContents |-> TRUE, contents |-> contents,
                                     hasMessages |-> FALSE, messages |-> <<>>]
             IN  {given(<<turn>>), given(<<empty>>), given(<<turn, empty>>),
                  [hasContents |-> FALSE, contents |-> <<>>,
                   hasMessages |-> TRUE, messages |-> <<message>>],
                  [hasContents |-> FALSE, contents |-> <<>>,
                   hasMessages |-> FALSE, messages |-> <<>>]} :
          ModelsRequest(operation, payload)
  \/ \E p \in Ops : ModelsReply(p)
  \/ ClientDisconnect
  \/ StreamReturn
  \/ \E message \in {DefaultMessage, AxiosError(NONE).message} : StreamThrow(message)

SpecRoute == InitRoute /\ [][NextRoute]_vars

\* ---- properties ----

AllFailed == \A i \in 1..Len(apiKeys) : apiKeys[i] \in failedKeys
Distinct(keys) == \A i, j \in 1..Len(keys) : i # j => keys[i] # keys[j]
Count(s, k, from, to) == Cardinality({i \in from..to : s[i] = k})

\* the operation left its retry loop through the throw that follows it
TerminalFailure(p) == pc[p] = "done" /\ result[p].kind = "ExternalServiceError"
RejectMessages == {AxiosError(BAD_REQUEST).message, AxiosError(UNAUTHORIZED).message}
RetryableMessages ==
  {AxiosError(INTERNAL_SERVER_ERROR).message, AxiosError(NONE).message,
   StreamError.message}
\* the step in which the pending upstream call or stream of p fails
FailStep(p) ==
  /\ pc[p] \in {"call", "streaming"}
  /\ \/ pc'[p] \in {"logerr", "acquire"}
     \/ pc'[p] = "done" /\ result'[p].kind # "ok"
\* the step in which p draws a key and issues the next upstream call
AcquireStep(p) == pc[p] = "acquire" /\ pc'[p] = "call"

\* C1: whatever calls of getNextKey, markKeyAsFailed and resetFailedKeys came
\* before, getNextKey never returns a key that is in the failed set at the
\* time of the call, and it returns no key exactly when every key of the
\* pool is in the failed set.  (served holds the results since the failed set
\* last changed, so the failed set of those calls is the current one.)
C1_NextKeyNeverFailed ==
  \A i \in 1..Len(served) :
    /\ served[i] \notin failedKeys
    /\ served[i] = NONE <=> AllFailed

C1_Witness ==
  /\ Len(served) >= 2
  /\ failedKeys # {}
  /\ ~AllFailed
  /\ served[Len(served)] # NONE

C3_NoRetryAfterReject ==
  \A p \in Ops :
    lastFailure[p] \in RejectMessages
      => /\ pc[p] \in {"logerr", "done"}
         /\ pc[p] = "done" => result[p].kind \in {"ExternalServiceError", "SinkError"}
         /\ calls[p] + noKeys[p] = attempt[p] + 1

C3_Witness ==
  \E p \in Ops :
    /\ TerminalFailure(p)
    /\ lastFailure[p] = AxiosError(UNAUTHORIZED).message
    /\ attempt[p] = 0
    /\ calls[p] = 1
    /\ Len(availableKeys(apiKeys, failedKeys)) >= 1

\* C4 as stated: the step in which an upstream call fails with 400 or 401
\* does not add the key that was used to the failed set.
C4_Original ==
  [][\A p \in Ops :
       (FailStep(p) /\ lastFailure'[p] \in RejectMessages)
         => failedKeys' = failedKeys]_vars

\* C5: the step in which an upstream call fails with anything but 400/401
\* puts the key that was used in the failed set, only the reset takes a key
\* out of it, and the next key the operation draws while that key is still
\* marked is a different one.
C5_RetryableMarksAndRotates ==
  [][/\ \A p \in Ops :
          (FailStep(p) /\ lastFailure'[p] \in RetryableMessages)
            => currentKey[p] \in failedKeys'
     /\ failedKeys \subseteq failedKeys' \/ failedKeys' = {}
     /\ \A p \in Ops :
          (/\ AcquireStep(p)
           /\ lastFailure[p] \in RetryableMessages
           /\ currentKey[p] \in failedKeys)
            => currentKey'[p] # currentKey[p]]_vars

C5_Witness ==
  \E p \in Ops :
    /\ pc[p] = "call"
    /\ attempt[p] >= 1
    /\ lastFailure[p] \in RetryableMessages
    /\ currentKey[p] \notin failedKeys
    /\ failedKeys # {}

\* C6 as stated: an acquisition that finds no available key ends the
\* operation at once: no upstream call and no further acquisition follow.
C6_Original ==
  \A p \in Ops :
    noKeys[p] > 0
      => /\ pc[p] = "done"
         /\ noKeys[p] = 1
         /\ lastFailure[p] = NoKeyError.message

\* C7 as stated: the error surfaced after an acquisition found no key differs
\* in kind or status from the error surfaced after the upstream failed.
C7_Original ==
  \A p \in Ops :
    (pc[p] = "done" /\ noKeys[p] > 0 /\ lastFailure[p] = NoKeyError.message)
      => \A s \in UpstreamStatuses \ {OK} :
           <<result[p].kind, result[p].statusCode>>
             # <<ExternalServiceError(AxiosError(s)).kind,
                 ExternalServiceError(AxiosError(s)).statusCode>>

\* C8: while the failed set stays the same, any m*A consecutive results of
\* getNextKey (A available keys, all keys distinct) hold each available key
\* exactly m times.
C8_RoundRobinFair ==
  Distinct(apiKeys) =>
    LET avail == SelectSeq(apiKeys, LAMBDA k : k \notin failedKeys)
        A == Len(avail)
    IN  A > 0 =>
          \A m \in 1..MaxWindow, start \in 1..Len(served) :
            start + m * A - 1 <= Len(served)
              => \A j \in 1..A : Count(served, avail[j], start, start + m * A - 1) = m

C8_Witness ==
  /\ Distinct(apiKeys)
  /\ Len(apiKeys) = 3
  /\ failedKeys = {}
  /\ Len(served) = 2 * Len(apiKeys)

\* C9: with both logs enabled and a sink that accepted every write of the
\* operation, each attempt that used a key has left exactly one record once
\* it is over: a request-log record for the successful one, an error-log
\* record for each failed one.
C9_OneRecordPerAttempt ==
  \A p \in Ops :
    (REQUEST_LOG_ENABLED /\ ERROR_LOG_ENABLED /\ ~sinkRejected[p])
      => LET pending == IF pc[p] \in {"call", "streaming", "logreq", "logerr"}
                          THEN 1 ELSE 0
             succeeded == IF pc[p] = "done" /\ result[p].kind = "ok" THEN 1 ELSE 0
         IN  /\ requestLogs[p] = succeeded
             /\ errorLogs[p] = calls[p] - pending - succeeded

C9_Witness ==
  \E p \in Ops :
    /\ REQUEST_LOG_ENABLED /\ ERROR_LOG_ENABLED /\ ~sinkRejected[p]
    /\ pc[p] = "done"
    /\ result[p].kind = "ok"
    /\ calls[p] = 3
    /\ errorLogs[p] = 2
    /\ requestLogs[p] = 1

Contains(t, s) ==
  \E i \in 1..(Len(t) - Len(s) + 1) : SubSeq(t, i, i + Len(s) - 1) = s

\* the first n and the last n characters of a text and an ellipsis between
Redacted(key, n) ==
  SubSeq(key, 1, IF n < Len(key) THEN n ELSE Len(key))
    \o <<".", ".", ".">>
    \o SubSeq(key, IF Len(key) < n THEN 1 ELSE Len(key) - n + 1, Len(key))

\* C11 as stated: nothing written to the request log, the error log or the
\* logger contains a whole credential, and the credential field of every
\* request-log and error-log record is the first four characters, an
\* ellipsis and the last four characters of the key.
C11_Original ==
  \A e \in logged :
    /\ ~Contains(e.text, e.key)
    /\ e.sink \in {"requestLog.geminiKey", "errorLog.geminiKey"}
         => e.text = Redacted(e.key, 4)

\* the lines of the response stream the relay has gone through: those a
\* newline ended, and at the end of the stream the rest as well
LinesRelayed ==
  LET lines == splitLines(toString(arrived))
  IN  IF relay = "ended" THEN lines ELSE SubSeq(lines, 1, Len(lines) - 1)
IsDataLine(line) ==
  Len(trim(line)) >= 6 /\ SubSeq(trim(line), 1, 6) = DataMarker
Payload(line) == SubSeq(trim(line), 7, Len(trim(line)))
\* a data line whose payload decodes
Decodable(line) == IsDataLine(line) /\ JSONparse(Payload(line)).ok
IsSentinel(line) == trim(line) = DataMarker \o <<"[", "D", "O", "N", "E", "]">>
TextA == <<"{", "\"", "a", "\"", ":", "1", "}">>
TextB == <<"{", "\"", "b", "\"", ":", "2", "}">>

\* C12 as stated: the frames the relay has yielded depend only on the bytes
\* that have arrived, not on how they were cut into chunks: they are the
\* frames of the arrived bytes read as a whole.  In particular the chunks
\* 'data: {"a":1}\n\nda' and 'ta: {"b":2}\n\n' give {a:1} and then {b:2}.
C12_Original ==
  /\ relay \in {"reading", "ended"} => yielded = relayLines(LinesRelayed).yield
  /\ (relay = "ended"
      /\ arrived = DataMarker \o TextA \o <<"\n", "\n">>
                     \o DataMarker \o TextB \o <<"\n", "\n">>)
       => yielded = <<[a |-> 1], [b |-> 2]>>

\* C13 as stated: once the line 'data: [DONE]' has gone through the relay, the
\* frames yielded are those of the decodable data lines before it: none for
\* the sentinel and none for anything after it.
C13_Original ==
  \A lines \in {LinesRelayed} :
    LET sentinels == {i \in 1..Len(lines) : IsSentinel(lines[i])}
    IN  sentinels # {}
          => LET k == CHOOSE i \in sentinels : \A j \in sentinels : i <= j
             IN  Len(yielded) = Len(SelectSeq(SubSeq(lines, 1, k - 1), Decodable))

\* C14: a data line whose payload does not decode is dropped: the relay goes
\* on reading, the attempt does not fail, the key is not marked failed, and
\* the decodable data lines before and after it all give their frame.
C14_UndecodableDropped ==
  \A lines \in {LinesRelayed} :
    (\E i \in 1..Len(lines) : IsDataLine(lines[i]) /\ ~Decodable(lines[i]))
      => /\ relay \in {"reading", "ended"}
         /\ failedKeys = {}
         /\ \A p \in Ops : lastFailure[p] = "none" /\ result[p].kind \in {"none", "ok"}
         /\ Len(yielded) = Len(SelectSeq(lines, Decodable))

C14_Witness ==
  /\ relay = "ended"
  /\ arrived = DataMarker \o TextA \o <<"\n", "\n">>
                 \o DataMarker \o <<"n", "o", "t", "-", "j", "s", "o", "n", "\n">>
                 \o DataMarker \o TextB \o <<"\n", "\n">>
  /\ yielded = <<[a |-> 1], [b |-> 2]>>
  /\ \A p \in Ops : pc[p] = "done" /\ result[p] = Success

\* C15: the frames yielded are, one for one and in the same order, those of
\* the decodable data lines that have gone through the relay: as many frames
\* as lines, the i-th frame being the object of the i-th line (the events of
\* the catalogue are told apart by their field).
C15_OneFramePerDataLine ==
  relay \in {"reading", "ended"}
    => \A data \in {SelectSeq(LinesRelayed, Decodable)} :
         /\ Len(yielded) = Len(data)
         /\ \A i \in 1..Len(data) :
              DOMAIN yielded[i] = DOMAIN JSONparse(Payload(data[i])).value

C15_Witness ==
  /\ relay = "ended"
  /\ Len(LinesRelayed) >= 5
  /\ yielded = <<[b |-> 2], [a |-> 1], [t |-> <<"U+00E9">>]>>

\* C16 as stated: once a frame has been delivered, every later frame of the
\* operation comes from the same upstream call: a failure of the stream
\* does not make the operation deliver the frames of another attempt.
C16_Original ==
  [][\A p \in Ops :
       (frames[p] > 0 /\ frames'[p] > frames[p])
         => frameCall'[p] = frameCall[p]]_vars

\* ---- C20 ----
FirstColon(text) ==
  IF \E i \in 1..Len(text) : text[i] = ":"
    THEN CHOOSE i \in 1..Len(text) : text[i] = ":" /\ ":" \notin {text[j] : j \in 1..(i - 1)}
    ELSE 0
ModelIdOf(text) == SubSeq(text, 1, FirstColon(text) - 1)
OperationOf(text) == SubSeq(text, FirstColon(text) + 1, Len(text))
Blank(text) == \A i \in 1..Len(text) : text[i] = " "
Parsed == route = "parse"
Accepted == Parsed /\ derived.statusCode = OK

TextAt(i, j) ==
  /\ i \in 1..Len(body.contents)
  /\ body.contents[i].hasParts
  /\ j \in 1..Len(body.contents[i].parts)
  /\ body.contents[i].parts[j].hasText
  /\ body.contents[i].parts[j].text # ""
Positions == (1..MaxTurns) \X (1..2)
Earlier(a, b) == a[1] < b[1] \/ (a[1] = b[1] /\ a[2] < b[2])
HasText == \E a \in Positions : TextAt(a[1], a[2])

\* C19: a TTS request uses the first text part in turn order then part
\* order; with no non-empty text part it is answered 400 with no key drawn
\* from the pool and no upstream call
C19_FirstTextOr400 ==
  route = "tts" =>
    IF HasText
      THEN /\ \E a \in Positions :
                /\ TextAt(a[1], a[2])
                /\ \A b \in Positions : TextAt(b[1], b[2]) => ~Earlier(b, a)
                /\ derived = body.contents[a[1]].parts[a[2]].text
           /\ reply # BAD_REQUEST
      ELSE /\ reply = BAD_REQUEST
           /\ hpc = "done"
           /\ currentKeyIndex = 0
           /\ \A p \in Ops : pc[p] = "idle" /\ calls[p] = 0 /\ noKeys[p] = 0

\* a request of two turns without any non-empty text was answered 400
C19_Witness ==
  /\ route = "tts"
  /\ Len(body.contents) = 2
  /\ ~HasText
  /\ reply = BAD_REQUEST

\* ---- C18 ----
\* the payload has no explicit content and no text part in any turn
NoContentDerivable ==
  /\ body.content = ""
  /\ ~HasText
  /\ \A i \in 1..Len(body.messages) : body.messages[i] = ""

\* C18 as stated, on a pool that has a key: an embedding request from which
\* no content can be derived fails as a client error, is never retried,
\* causes no upstream call and leaves the failed set of the pool unchanged
C18_Original ==
  (route = "embed" /\ NoContentDerivable /\ Len(apiKeys) > 0) =>
    /\ failedKeys = {}
    /\ \A p \in Ops :
         /\ calls[p] = 0
         /\ attempt[p] = 0
         /\ pc[p] = "done" => result[p].statusCode = BAD_REQUEST

\* ---- C17 ----
StreamingFailed == route \in {"native", "openai"} /\ hpc = "failed"

\* C17: when a streaming operation has failed for good, the calls on the
\* response are the data frames written so far, then exactly one error
\* frame, then the end of the stream, and nothing else is written or sent
C17_OneErrorFrameThenClosed ==
  StreamingFailed =>
    /\ Len(wire) >= 2
    /\ \A i \in 1..(Len(wire) - 2) : wire[i].type = "data"
    /\ wire[Len(wire) - 1].type = "error"
    /\ wire[Len(wire)].type = "end"
    /\ reply = 0

\* a native streaming request failed after two data frames were written
C17_Witness ==
  /\ route = "native"
  /\ hpc = "failed"
  /\ Len(wire) = 4
  /\ wire[1].type = "data" /\ wire[2].type = "data"
  /\ wire[3] = Call("error", DefaultMessage)

\* ---- C24 ----
\* C24 as stated: getKeyStatus reports total = available + failed, available
\* is the number of credentials getNextKey can return, and it is 0 exactly
\* when getNextKey returns no credential
C24_Original ==
  LET status == getKeyStatus(apiKeys, VERTEX_API_KEYS, failedKeys)
  IN  /\ status.total = status.available + status.failed
      /\ status.available = Len(availableKeys(apiKeys, failedKeys))
      /\ status.available = 0 <=>
           getNextKey(apiKeys, failedKeys, currentKeyIndex) = NONE

\* ---- C25 ----
\* C25: after resetFailedKeys the failed set is empty, every credential of
\* the pool is available, getNextKey returns a credential when the pool is
\* not empty, and the credential list is unchanged
C25_ResetRestoresAll ==
  [][CallResetFailedKeys =>
       /\ failedKeys' = {}
       /\ apiKeys' = apiKeys
       /\ availableKeys(apiKeys', failedKeys') = apiKeys
       /\ Len(apiKeys) > 0 =>
            getNextKey(apiKeys', failedKeys', currentKeyIndex') # NONE]_vars

\* the failed set of a pool of several keys was emptied after keys had been
\* drawn: the window of results is empty although the cursor has moved
C25_Witness ==
  /\ Len(apiKeys) > 1
  /\ failedKeys = {}
  /\ currentKeyIndex > 0
  /\ served = <<>>

\* ---- C28 ----
\* a step in which some operation's getNextKey returns a credential
DrawStep == (\E p \in Ops : AcquireStep(p)) \/ OtherGetNextKey

C29_OnlyResetClears ==
  [][/\ apiKeys' = apiKeys
     /\ \A k \in failedKeys : k \in failedKeys' \/ ResetFailedKeys]_vars

\* an upstream call answered 200 with a credential that a request beside
\* the operation had marked failed meanwhile: the credential is still failed
C29_Witness ==
  \E p \in Ops :
    /\ pc[p] = "done"
    /\ result[p] = Success
    /\ currentKey[p] \in failedKeys
    /\ Cardinality(failedKeys) = 2

\* ---- C30 ----
\* "Max failures allowed per key" of the configuration table
MAX_FAILURES == 3

\* C30 as stated: a key is out of rotation only after it has failed
\* MAX_FAILURES times.  A TTS request is followed on a fresh pool: while it
\* has issued fewer than MAX_FAILURES upstream calls no key can have failed
\* that often, so the failed set must be empty
C30_Original ==
  \A p \in Ops :
    (route = "tts" /\ calls[p] < MAX_FAILURES) => failedKeys = {}

\* ---- C23 ----
\* C23 as stated: a request is handled as TTS if and only if its requested
\* output modalities include 'AUDIO', whichever entry point it arrived at
C23_Original ==
  route = "dispatch" =>
    (derived.handler = "handleTTSRequest" <=>
       "AUDIO" \in {derived.responseModalities[i] :
                      i \in 1..Len(derived.responseModalities)})

\* ---- C22 ----
\* C22: an OpenAI-dialect request with n messages is converted to n turns
\* in the same order, each with one text part holding the message content
\* and with the message's role, 'assistant' become 'model'
C22_OneTurnPerMessage ==
  route = "chat" =>
    /\ Len(derived.contents) = Len(body.messages)
    /\ \A i \in 1..Len(body.messages) :
         /\ Len(derived.contents[i].parts) = 1
         /\ derived.contents[i].parts[1].text = body.messages[i].content
         /\ body.messages[i].role = "assistant" => derived.contents[i].role = "model"
         /\ body.messages[i].role # "assistant" =>
              derived.contents[i].role = body.messages[i].role

\* a request of a user message followed by an assistant message was converted
C22_Witness ==
  /\ route = "chat"
  /\ Len(body.messages) = 2
  /\ body.messages[1].role = "user" /\ body.messages[2].role = "assistant"
  /\ derived.contents[2] = [role |-> "model", parts |-> <<[text |-> "hello"]>>]

\* ---- C21 ----
ReasonTable ==
  [STOP |-> "stop", MAX_TOKENS |-> "length", SAFETY |-> "content_filter",
   RECITATION |-> "content_filter"]
ChatAnswered == route = "chat" /\ hpc = "done" /\ reply = OK

\* C21: the converted response has one choice per candidate, whose index is
\* the candidate's position, and whose finish reason follows the table
\* STOP->stop, MAX_TOKENS->length, SAFETY->content_filter,
\* RECITATION->content_filter, anything else->stop
C21_OneChoicePerCandidate ==
  ChatAnswered =>
    /\ Len(derived.choices) = Len(derived.candidates)
    /\ \A i \in 1..Len(derived.candidates) :
         /\ derived.choices[i].index = i - 1
         /\ derived.choices[i].finish_reason =
              IF derived.candidates[i].finishReason \in DOMAIN ReasonTable
                THEN ReasonTable[derived.candidates[i].finishReason]
                ELSE "stop"

\* a response of two candidates, finished by SAFETY and by something outside
\* the table, was converted
C21_Witness ==
  /\ ChatAnswered
  /\ Len(derived.candidates) = 2
  /\ derived.candidates[1].finishReason = "SAFETY"
  /\ derived.candidates[2].finishReason = "OTHER"
  /\ derived.choices[1].finish_reason = "content_filter"
  /\ derived.choices[2].index = 1

\* ---- C26 ----
\* C26 as stated: telemetry is fire-and-forget.  An operation that does not
\* wait for the log sink is never suspended at the write of its request log
\* while the result of its successful attempt, or the end of its stream, is
\* outstanding
C26_Original ==
  \A p \in Ops : pc[p] # "logreq"

\* ---- C27 ----
\* C27 as stated: after the client has disconnected in the middle of a
\* streaming response, the handler takes no further chunk from the
\* operation and writes no frame
C27_Original ==
  [][clientGone =>
       ~(Len(wire') > Len(wire) /\ wire'[Len(wire) + 1].type = "data")]_vars

\* ---- C31 ----
KeyCheckRan == \E e \in logged : e.text = "Running key health check..."

\* C31: failed keys are re-examined on the schedule of the key check, so a
\* pool whose keys have all failed does not stay exhausted: a run of the key
\* check that finds every key failed (the upstream taken as recovered) brings
\* at least one key back to rotation.
C31_Original ==
  [][(~KeyCheckRan /\ KeyCheckRan' /\ Len(apiKeys) > 0 /\ AllFailed) => ~AllFailed']_vars

\* ---- C32 ----
\* the turns of the body the upstream call of the request is issued with
SentUpstream ==
  CASE route = "models" -> derived.upstream.contents
    [] route = "chat" -> derived.contents
    [] OTHER -> <<>>

NonEmptyParts(turn) ==
  /\ "hasParts" \in DOMAIN turn => turn.hasParts
  /\ Len(turn.parts) > 0

\* C32: every turn of every payload sent upstream has a non-empty parts
\* list, in either dialect, also when a native request supplies a turn whose
\* parts list is empty.
C32_Original ==
  (\E p \in Ops : calls[p] > 0) \/ route = "chat"
    => \A i \in 1..Len(SentUpstream) : NonEmptyParts(SentUpstream[i])

\* ---- C33 ----
\* C33: converting an OpenAI-dialect request maps every supplied max_tokens,
\* temperature, top_p and stop to the generation parameters with the same
\* value (a stop string becomes a one-element list), also when the value is
\* 0; a field that is not supplied is absent from the result.
C33_Original ==
  route = "chat" =>
    /\ derived.generationConfig.maxOutputTokens = derived.request.max_tokens
    /\ derived.generationConfig.temperature = derived.request.temperature
    /\ derived.generationConfig.topP = derived.request.top_p
    /\ derived.generationConfig.stopSequences =
         [given |-> derived.request.stop.given, value |-> derived.request.stop.value]

\* ---- C34 ----
\* what is left of a line once it is trimmed and the marker, if it has one,
\* is stripped
Remainder(line) == IF IsDataLine(line) THEN Payload(line) ELSE trim(line)

\* C34: the marker 'data: ' is optional: every line that went through the
\* relay and whose remainder is not empty and decodes has yielded a frame,
\* a line without the marker too.
C34_Original ==
  relay \in {"reading", "ended"} =>
    \A lines \in {LinesRelayed} :
      Len(yielded) = Cardinality({i \in 1..Len(lines) :
                                   /\ Remainder(lines[i]) # <<>>
                                   /\ JSONparse(Remainder(lines[i])).ok})

\* ---- C35 ----
\* C35: when the upstream stream ends (without a '[DONE]' line: the relay
\* knows no sentinel) the attempt counts as a success: once the stream has
\* ended and the request-log record is being written, the operation goes on
\* to return with that one record emitted, without a failure recorded (no
\* key marked failed, no retry).
C35_Original ==
  [][\A p \in Ops :
       (kind[p] = "streamGenerateContent" /\ pc[p] = "logreq" /\ pc'[p] # "logreq")
         => /\ pc'[p] = "done"
            /\ result'[p] = Success
            /\ requestLogs'[p] = 1
            /\ lastFailure'[p] = lastFailure[p]
            /\ calls'[p] = calls[p]]_vars

\* ---- C36 ----
\* C36: every operation the native endpoint accepts drives the retry loop:
\* when the request has been answered with 200, a key was drawn, an upstream
\* call was made and the answer is the result of the chat service.
C36_Original ==
  (route = "models" /\ hpc = "done" /\ reply = OK)
    => \E p \in Ops :
         /\ kind[p] = params[3]
         /\ calls[p] > 0
         /\ currentKey[p] # NONE
         /\ result[p] = Success

\* ---- C37 ----
\* C37: a failure of the log sink never changes the outcome of an operation
\* or the health of a key: a rejected request-log write is never recorded as
\* a failed attempt (which marks the key and goes on to another upstream
\* call), and a rejected error-log write never ends the operation in place
\* of its remaining attempts.
C37_Original ==
  \A p \in Ops :
    /\ lastFailure[p] # SinkError.message
    /\ result[p] # SinkThrown

\* ---- C38 ----
\* how far an operation is from its end: the iterations left, and within
\* an iteration the awaits left
Rank(p) ==
  IF pc[p] \in {"idle", "done"} THEN 0
  ELSE (MAX_RETRIES - attempt[p]) * 5
         + (CASE pc[p] = "acquire" -> 4
              [] pc[p] = "call" -> 3
              [] pc[p] = "streaming" -> 2
              [] pc[p] = "logreq" -> 1
              [] pc[p] = "logerr" -> 0)

InFlight == {"call", "streaming", "logreq"}

DoneLines == {i \in 1..Len(wire) : wire[i].type = "done"}

\* C39: in an OpenAI-dialect streaming response the line 'data: [DONE]' is
\* written when and only when the streaming operation succeeded, then
\* exactly once, after every data frame and followed only by the end of the
\* response; when the operation failed an error frame is written and no
\* '[DONE]' line is.
C39_DoneIffSucceeded ==
  route = "openai" =>
    /\ DoneLines # {} <=> hpc = "returned"
    /\ hpc = "returned"
         => /\ DoneLines = {Len(wire) - 1}
            /\ wire[Len(wire)].type = "end"
            /\ \A i \in 1..(Len(wire) - 2) : wire[i].type = "data"
    /\ hpc = "failed"
         => Cardinality({i \in 1..Len(wire) : wire[i].type = "error"}) = 1

\* an OpenAI-dialect stream that succeeded after two data frames
C39_Witness ==
  /\ route = "openai"
  /\ hpc = "returned"
  /\ Len(wire) = 4
  /\ wire[1].type = "data" /\ wire[2].type = "data"
  /\ wire[3] = Call("done", "[DONE]")

====
